---- MODULE Spec2Model ----
(***************************************************************************)
(* Model of the text-to-speech front end: src/App.tsx (the audio pipeline  *)
(* and the App component's handlers) and src/unnamed/part_000 (the remote  *)
(* service wrappers generateStory and generateSpeech).                     *)
(*                                                                         *)
(* Conventions.                                                            *)
(*  - A JavaScript string is a sequence of one-character strings.          *)
(*  - A Uint8Array / ArrayBuffer is a sequence of numbers in 0..255; the   *)
(*    JavaScript index i is the TLA+ index i + 1.                          *)
(*  - A call that may throw yields [ok, val, err]: ok = TRUE with the      *)
(*    value, or ok = FALSE with the name of the exception.                 *)
(*  - A Float32 sample is the exact rational [num, den] (every int16       *)
(*    divided by 32768 is exactly representable in a Float32).             *)
(*  - Typed arrays use the platform byte order; every browser engine is    *)
(*    little-endian, and so is Int16Array here.                            *)
(***************************************************************************)
EXTENDS Integers, Sequences, FiniteSets, TLC

VARIABLES
    \* ---- the App component's React state and ref
    text,            \* the text to speak
    isLoading,
    error,           \* Null, or the message shown
    audioUrl,        \* Null, or the blob URL of the WAV file
    audioBuffer,     \* Null, or the AudioBuffer for playback
    audioContextRef, \* audioContextRef.current: Null, or the AudioContext
    mode,            \* "tts" or "story"
    storyPrompt,
    isStoryLoading,
    storyError,
    mounted,         \* FALSE once the component is torn down
    \* ---- the handleGenerate invocation that ran last (an async function's frame)
    requestId,       \* which generation request it serves (0: none yet)
    genPc,           \* "idle", "awaitSpeech", "speechSettled", "awaitDecode"
    speechPromise,   \* the settled result of generateSpeech(...)
    decodePromise,   \* the settled result of decodeAudioData(...)
    genCaught,       \* Null, or the exception its catch block received
    genTrace,        \* the pipeline calls it has made, in order
    generations,     \* how many generation cycles have started
    parked,          \* the frames of the other invocations waiting at an await
    audioUrlRequest,    \* the request whose invocation set audioUrl (0: none)
    audioBufferRequest, \* the request whose invocation set audioBuffer (0: none)
    \* ---- the running handleGenerateStory invocation
    storyPc,         \* "idle", "awaitStory", "storySettled"
    storyPromise,    \* the settled result of generateStory(...)
    stories,         \* how many story requests have started
    \* ---- the platform
    blobUrlStore,    \* the blob URLs created and not revoked, with their bytes
    urlCount,        \* how many URL.createObjectURL calls were made
    ctxCreated,      \* how many AudioContext objects were constructed
    ctxState,        \* AudioContext.state: "none", "suspended" or "running"
    resumePending,   \* a resume() was requested and has not taken effect
    playCalls,       \* how many times handlePlay was invoked
    lastPlay,        \* the AudioContext calls of the last handlePlay, in order
    apiCalls,        \* how many ai.models.generateContent calls were issued
    \* ---- inputs and result of one direct call of a pipeline function
    pcmBytes,        \* the Uint8Array handed to the function
    numChannelsIn,   \* the numChannels argument
    sampleRateIn,    \* the sampleRate argument
    fnCalled,        \* "none", "createWavBlob" or "decodeAudioData"
    fnResult         \* what the call returned or threw

reactVars == <<text, isLoading, error, audioUrl, audioBuffer, audioContextRef,
               mode, storyPrompt, isStoryLoading, storyError, mounted>>

genVars == <<requestId, genPc, speechPromise, decodePromise, genCaught, genTrace,
             generations, parked, audioUrlRequest, audioBufferRequest>>

storyVars == <<storyPc, storyPromise, stories>>

platformVars == <<blobUrlStore, urlCount, ctxCreated, ctxState, resumePending,
                  playCalls, lastPlay, apiCalls>>

appVars == <<reactVars, genVars, storyVars, platformVars>>

unitVars == <<pcmBytes, numChannelsIn, sampleRateIn, fnCalled, fnResult>>

vars == <<appVars, unitVars>>

\* ------------------------------------------------------------------ bounds

\* Most int16 samples in a byte sequence handed directly to a pipeline function.
MaxSamples == 4
\* Largest channel count handed directly to decodeAudioData.
MaxChannels == 2

\* The samples the byte sequences are made of: zero, one (whose two bytes
\* differ), and the extremes of the int16 range.
SampleVals == {0, 1, -1, 32767, -32768}

\* What may follow the last whole sample: nothing, or one stray byte.
TrailingBytes == {<<>>, <<0>>, <<255>>}

\* Most generation cycles, story requests and handlePlay invocations.
MaxGenerations == 2
MaxStories == 1
MaxPlays == 2

\* Sample rates handed directly to createWavBlob. The third needs all four
\* bytes of the 32-bit header fields.
Rates == {1, 24000, 16777217}

\* ------------------------------------------------------------ JS results

\* JavaScript's null (and an unset ref).
Null == <<>>

Ok(v) == [ok |-> TRUE, val |-> v, err |-> ""]
Throw(e) == [ok |-> FALSE, val |-> <<>>, err |-> e]

\* ------------------------------------------------------------- base64

B64Alphabet ==
    << "A","B","C","D","E","F","G","H","I","J","K","L","M","N","O","P",
       "Q","R","S","T","U","V","W","X","Y","Z","a","b","c","d","e","f",
       "g","h","i","j","k","l","m","n","o","p","q","r","s","t","u","v",
       "w","x","y","z","0","1","2","3","4","5","6","7","8","9","+","/" >>

IsB64Char(c) == \E i \in 1..64 : B64Alphabet[i] = c

B64Value(c) == (CHOOSE i \in 1..64 : B64Alphabet[i] = c) - 1

IsAsciiWhitespace(c) == c \in {" ", "\t", "\n", "\f", "\r"}

\* s without up to two trailing "=" (the forgiving-base64 padding rule).
StripPadding(s) ==
    LET n == Len(s) IN
    IF n >= 2 /\ s[n] = "=" /\ s[n - 1] = "=" THEN SubSeq(s, 1, n - 2)
    ELSE IF n >= 1 /\ s[n] = "=" THEN SubSeq(s, 1, n - 1)
    ELSE s

\* The bytes of the base64 digits d (no whitespace, no padding, Len % 4 # 1).
RECURSIVE B64Bytes(_)
B64Bytes(d) ==
    IF Len(d) >= 4 THEN
        LET n == B64Value(d[1]) * 262144 + B64Value(d[2]) * 4096
                 + B64Value(d[3]) * 64 + B64Value(d[4])
        IN <<n \div 65536, (n \div 256) % 256, n % 256>>
           \o B64Bytes(SubSeq(d, 5, Len(d)))
    ELSE IF Len(d) = 3 THEN
        LET n == (B64Value(d[1]) * 4096 + B64Value(d[2]) * 64 + B64Value(d[3])) \div 4
        IN <<n \div 256, n % 256>>
    ELSE IF Len(d) = 2 THEN
        <<(B64Value(d[1]) * 64 + B64Value(d[2])) \div 16>>
    ELSE <<>>

\* window.atob: the binary string, as the sequence of its character codes.
atob(base64) ==
    LET stripped == SelectSeq(base64, LAMBDA c : ~IsAsciiWhitespace(c))
        digits   == IF Len(stripped) % 4 = 0 THEN StripPadding(stripped) ELSE stripped
    IN IF Len(digits) % 4 = 1 \/ \E i \in 1..Len(digits) : ~IsB64Char(digits[i])
       THEN Throw("InvalidCharacterError")
       ELSE Ok(B64Bytes(digits))

\* decode(base64): atob, then one byte per character code.
decode(base64) ==
    LET binaryString == atob(base64) IN
    IF ~binaryString.ok THEN binaryString
    ELSE LET len == Len(binaryString.val) IN
         Ok([i \in 1..len |-> binaryString.val[i]])

\* --------------------------------------------------------- typed arrays

ToInt16(u) == LET m == u % 65536 IN IF m >= 32768 THEN m - 65536 ELSE m

\* new Int16Array(buffer): a view of the whole buffer as little-endian int16;
\* a RangeError when the byte length is not a multiple of 2.
Int16Array(buffer) ==
    IF Len(buffer) % 2 # 0 THEN Throw("RangeError")
    ELSE Ok([i \in 1..(Len(buffer) \div 2) |->
                ToInt16(buffer[2 * i - 1] + 256 * buffer[2 * i])])

\* ------------------------------------------------------------ DataView

\* buf with the bytes bs written from JavaScript offset off.
SetBytes(buf, off, bs) ==
    SubSeq(buf, 1, off) \o bs \o SubSeq(buf, off + Len(bs) + 1, Len(buf))

CharCode(c) ==
    CASE c = "R" -> 82  [] c = "I" -> 73  [] c = "F" -> 70  [] c = "W" -> 87
      [] c = "A" -> 65  [] c = "V" -> 86  [] c = "E" -> 69  [] c = "f" -> 102
      [] c = "m" -> 109 [] c = "t" -> 116 [] c = " " -> 32  [] c = "d" -> 100
      [] c = "a" -> 97

\* writeString(view, offset, string)
writeString(buf, offset, string) ==
    SetBytes(buf, offset, [i \in 1..Len(string) |-> CharCode(string[i])])

\* view.setUint32(offset, value, true): the low 32 bits, low byte first.
setUint32(buf, offset, value) ==
    SetBytes(buf, offset,
        <<value % 256, (value \div 256) % 256,
          (value \div 65536) % 256, (value \div 16777216) % 256>>)

\* view.setUint16(offset, value, true): the low 16 bits, low byte first.
setUint16(buf, offset, value) ==
    SetBytes(buf, offset, <<value % 256, (value \div 256) % 256>>)

\* setInt16 with the byte order flag forgotten: high byte first.
setInt16BigEndian(buf, offset, value) ==
    LET u == value % 65536 IN SetBytes(buf, offset, <<u \div 256, u % 256>>)

\* view.setInt16(offset, value, true): two's complement, low byte first.
setInt16(buf, offset, value) ==
    LET u == value % 65536 IN SetBytes(buf, offset, <<u % 256, u \div 256>>)

\* -------------------------------------------------------- createWavBlob

RECURSIVE WriteSamples(_, _, _)
WriteSamples(buf, pcmData, i) ==
    IF i >= Len(pcmData) THEN buf
    ELSE WriteSamples(setInt16(buf, 44 + i * 2, pcmData[i + 1]), pcmData, i + 1)

\* The bytes of the Blob createWavBlob(pcmData, sampleRate) returns.
createWavBlob(pcmData, sampleRate) ==
    LET numChannels   == 1
        bitsPerSample == 16
        dataSize      == Len(pcmData) * 2
        blockAlign    == (numChannels * bitsPerSample) \div 8
        byteRate      == sampleRate * blockAlign
        b0  == [i \in 1..(44 + dataSize) |-> 0]
        b1  == writeString(b0, 0, <<"R", "I", "F", "F">>)
        b2  == setUint32(b1, 4, 36 + dataSize)
        b3  == writeString(b2, 8, <<"W", "A", "V", "E">>)
        b4  == writeString(b3, 12, <<"f", "m", "t", " ">>)
        b5  == setUint32(b4, 16, 16)
        b6  == setUint16(b5, 20, 1)
        b7  == setUint16(b6, 22, numChannels)
        b8  == setUint32(b7, 24, sampleRate)
        b9  == setUint32(b8, 28, byteRate)
        b10 == setUint16(b9, 32, blockAlign)
        b11 == setUint16(b10, 34, bitsPerSample)
        b12 == writeString(b11, 36, <<"d", "a", "t", "a">>)
        b13 == setUint32(b12, 40, dataSize)
    IN WriteSamples(b13, pcmData, 0)

\* ------------------------------------------------------ decodeAudioData

\* The normalisation with the positive full scale as divisor.
ToFloatBy32767(value) == [num |-> value, den |-> 32767]

\* value / 32768.0 as a Float32: exact for every int16.
ToFloat(value) == [num |-> value, den |-> 32768]

\* ctx.createBuffer(numberOfChannels, length, sampleRate). `length` arrives
\* as the quotient lengthNum / lengthDen and is converted to an unsigned
\* long by truncation; a channel count or a length of zero is a
\* NotSupportedError. The buffer starts silent.
createBuffer(numberOfChannels, lengthNum, lengthDen, sampleRate) ==
    LET length == lengthNum \div lengthDen IN
    IF numberOfChannels < 1 \/ length < 1 THEN Throw("NotSupportedError")
    ELSE Ok([numberOfChannels |-> numberOfChannels,
             length           |-> length,
             sampleRate       |-> sampleRate,
             channelData      |-> [c \in 1..numberOfChannels |->
                                      [i \in 1..length |-> ToFloat(0)]]])

\* The value the loop of decodeAudioData leaves in channelData[i] of
\* `channel`: i runs while i < frameCount = samples / numChannels; a store
\* past the end of the Float32Array is ignored.
ChannelSample(dataInt16, numChannels, channel, i, old) ==
    IF i * numChannels < Len(dataInt16)
    THEN ToFloat(dataInt16[i * numChannels + channel + 1])
    ELSE old

\* decodeAudioData(data, ctx, sampleRate, numChannels): the AudioBuffer, or
\* the exception that rejects the promise.
decodeAudioData(data, sampleRate, numChannels) ==
    LET dataInt16 == Int16Array(data) IN
    IF ~dataInt16.ok THEN dataInt16
    ELSE LET buffer == createBuffer(numChannels, Len(dataInt16.val), numChannels,
                                    sampleRate)
         IN IF ~buffer.ok THEN buffer
            ELSE Ok([buffer.val EXCEPT !.channelData =
                      [c \in 1..numChannels |->
                        [i \in 1..buffer.val.length |->
                          ChannelSample(dataInt16.val, numChannels, c - 1, i - 1,
                                        buffer.val.channelData[c][i])]]])

\* ------------------------------------------------------- remote service

\* String.prototype.trim
RECURSIVE trimStart(_)
trimStart(s) ==
    IF s # <<>> /\ IsAsciiWhitespace(Head(s)) THEN trimStart(Tail(s)) ELSE s

RECURSIVE trimEnd(_)
trimEnd(s) ==
    IF s # <<>> /\ IsAsciiWhitespace(s[Len(s)])
    THEN trimEnd(SubSeq(s, 1, Len(s) - 1)) ELSE s

trim(s) == trimEnd(trimStart(s))

\* What ai.models.generateContent can answer to a speech request: a rejected
\* call, a response without inline data, or a response with the data string.
SpeechResponses ==
    {[rejected |-> TRUE,  hasData |-> FALSE, data |-> <<>>],
     [rejected |-> FALSE, hasData |-> FALSE, data |-> <<>>]}
    \cup {[rejected |-> FALSE, hasData |-> TRUE, data |-> d] : d \in
            {<<>>,                                       \* ""
             <<" ">>,                                    \* no digits at all
             <<"!">>,                                    \* not base64
             <<"A", "A", "A", "A">>,                     \* three bytes
             <<"A", "I", "A", "=">>,                     \* the sample -32768
             <<"A", "A", "D", "/", "f", "w", "=", "=">>  \* the samples 0, 32767
            }}

\* What ai.models.generateContent can answer to a story request.
StoryResponses ==
    {[rejected |-> TRUE,  hasText |-> FALSE, text |-> <<>>],
     [rejected |-> FALSE, hasText |-> FALSE, text |-> <<>>]}
    \cup {[rejected |-> FALSE, hasText |-> TRUE, text |-> t] : t \in
            {<<>>, <<" ">>, <<" ", "a", " ">>}}

\* generateStory, from the response on: the promise it returns, settled. The
\* inner throw ("The model did not return a story.") and a rejected call are
\* both caught and rethrown as "Failed to generate the story.".
generateStory(response) ==
    IF response.rejected THEN Throw("Failed to generate the story.")
    ELSE LET story == response.text IN
         IF ~response.hasText \/ story = <<>>
         THEN Throw("Failed to generate the story.")
         ELSE Ok(trim(story))

\* generateSpeech, from the response on: the promise it returns, settled.
generateSpeech(response) ==
    IF response.rejected THEN Throw("Failed to generate speech.")
    ELSE LET base64Audio == response.data IN
         IF ~response.hasData \/ base64Audio = <<>>
         THEN Throw("Failed to generate speech.")
         ELSE Ok(base64Audio)

\* ------------------------------------------------------------- App state

\* What the user can type as the text and as the story prompt.
Texts == {<<>>, <<" ">>, <<"a">>}
StoryPrompts == {<<>>, <<"p">>}

\* new AudioContext({ sampleRate: 24000 }): the state the new context starts
\* in (the autoplay policy decides), or an exception.
ContextOutcomes == {"running", "suspended", "throws"}

AppInit ==
    /\ text = <<>>
    /\ isLoading = FALSE
    /\ error = Null
    /\ audioUrl = Null
    /\ audioBuffer = Null
    /\ audioContextRef = Null
    /\ mode = "tts"
    /\ storyPrompt = <<>>
    /\ isStoryLoading = FALSE
    /\ storyError = Null
    /\ mounted = TRUE
    /\ requestId = 0
    /\ genPc = "idle"
    /\ speechPromise = Null
    /\ decodePromise = Null
    /\ genCaught = Null
    /\ genTrace = <<>>
    /\ generations = 0
    /\ parked = {}
    /\ audioUrlRequest = 0
    /\ audioBufferRequest = 0
    /\ storyPc = "idle"
    /\ storyPromise = Null
    /\ stories = 0
    /\ blobUrlStore = <<>>
    /\ urlCount = 0
    /\ ctxCreated = 0
    /\ ctxState = "none"
    /\ resumePending = FALSE
    /\ playCalls = 0
    /\ lastPlay = <<>>
    /\ apiCalls = 0

\* ------------------------------------------------------------- blob URLs

LiveUrls == DOMAIN blobUrlStore

\* URL.revokeObjectURL(url) on the store; revoking twice is harmless.
revokeObjectURL(store, url) ==
    [u \in (DOMAIN store) \ {url} |-> store[u]]

\* The effect without its cleanup: nothing is revoked.
AudioUrlCleanupSkipped(store, url) == store

\* The cleanup of the audioUrl effect: it runs with the audioUrl of the
\* render it was created in, when audioUrl changes and on unmount.
AudioUrlCleanup(store, url) ==
    IF url # Null THEN revokeObjectURL(store, url) ELSE store

\* URL.createObjectURL(blob): the n-th URL handed out.
BlobUrl(n) == <<"blob", n>>

createObjectURL(store, n, blob) ==
    [u \in (DOMAIN store) \cup {BlobUrl(n)} |->
        IF u = BlobUrl(n) THEN blob ELSE store[u]]

\* ----------------------------------------------------------- handleGenerate

\* A catch block that logs the exception and sets no message.
CatchErrorSwallowed(e) == Null

\* The message setError receives in the catch block. Every exception of this
\* chain is an Error instance, so the message is errorPrefix and e.message.
CatchError(e) == <<"errorPrefix", e>>

\* The context built on every generation, the ref not consulted.
AlwaysNeedsAudioContext(ref) == TRUE

\* if (!audioContextRef.current)
NeedsAudioContext(ref) == ref = Null

\* The WAV branch decoding the base64 string again for itself.
TraceWavRedecoding(viewOk) ==
    IF viewOk THEN <<"decode", "Int16Array", "createWavBlob", "createObjectURL">>
    ELSE <<"decode", "Int16Array">>

\* The pipeline calls of lines 156-158, given whether the Int16Array view
\* could be made.
TraceWav(viewOk) ==
    IF viewOk THEN <<"Int16Array", "createWavBlob", "createObjectURL">>
    ELSE <<"Int16Array">>

\* The pipeline calls decodeAudioData makes (lines 24-26).
TraceDecodeAudioData(data) ==
    IF Int16Array(data).ok THEN <<"Int16Array", "createBuffer">>
    ELSE <<"Int16Array">>

\* The frame of the handleGenerate invocation that ran last.
LastFrame ==
    [requestId     |-> requestId,
     genPc         |-> genPc,
     speechPromise |-> speechPromise,
     decodePromise |-> decodePromise,
     genCaught     |-> genCaught,
     genTrace      |-> genTrace]

\* The invocations of handleGenerate that wait at an await. Nothing in
\* handleGenerate cancels an earlier invocation or tells its result from a
\* later one's: each frame runs to its end and calls the same setters.
RunningFrames == (IF genPc # "idle" THEN {LastFrame} ELSE {}) \cup parked

\* handleGenerate up to its first await. An invocation still waiting stays
\* so (parked).
HandleGenerate ==
    IF trim(text) = <<>>
    THEN /\ error' = <<"errorEnterText">>
         /\ UNCHANGED <<text, isLoading, audioUrl, audioBuffer, audioContextRef,
                        mode, storyPrompt, isStoryLoading, storyError, mounted>>
         /\ UNCHANGED <<genVars, storyVars, platformVars>>
    ELSE \E outcome \in ContextOutcomes :
         LET create == NeedsAudioContext(audioContextRef)
             threw  == create /\ outcome = "throws"
             made   == create /\ outcome # "throws"
         IN
         /\ generations' = generations + 1
         /\ requestId' = generations + 1
         /\ parked' = RunningFrames
         /\ audioUrlRequest' = 0
         /\ audioBufferRequest' = 0
         /\ blobUrlStore' =
                AudioUrlCleanup(
                    IF audioUrl # Null THEN revokeObjectURL(blobUrlStore, audioUrl)
                    ELSE blobUrlStore,
                    audioUrl)
         /\ audioUrl' = Null
         /\ audioBuffer' = Null
         /\ audioContextRef' =
                IF made THEN [id |-> ctxCreated + 1, sampleRate |-> 24000]
                ELSE audioContextRef
         /\ ctxCreated' = IF made THEN ctxCreated + 1 ELSE ctxCreated
         /\ ctxState' = IF made THEN outcome ELSE ctxState
         /\ resumePending' = IF made THEN FALSE ELSE resumePending
         /\ genTrace' = <<>>
         /\ speechPromise' = Null
         /\ decodePromise' = Null
         /\ IF threw
            THEN /\ genCaught' = [message |-> "AudioContext is not available"]
                 /\ error' = CatchError("AudioContext is not available")
                 /\ isLoading' = FALSE
                 /\ genPc' = "idle"
                 /\ apiCalls' = apiCalls
            ELSE /\ genCaught' = Null
                 /\ error' = Null
                 /\ isLoading' = TRUE
                 /\ genPc' = "awaitSpeech"
                 /\ apiCalls' = apiCalls + 1
         /\ UNCHANGED <<text, mode, storyPrompt, isStoryLoading, storyError, mounted>>
         /\ UNCHANGED <<storyVars, urlCount, playCalls, lastPlay>>

\* The generate button left enabled while a generation is loading.
GenerateDisabledOnEmptyText == trim(text) = <<>>

\* disabled={isLoading || !text.trim()} of the generate button.
GenerateDisabled == isLoading \/ trim(text) = <<>>

\* The generate button, shown in the "tts" tab.
ClickGenerate ==
    /\ mounted
    /\ mode = "tts"
    /\ ~GenerateDisabled
    /\ generations < MaxGenerations
    /\ HandleGenerate
    /\ UNCHANGED unitVars

\* The service answers the speech request; generateSpeech settles.
SpeechResponds ==
    \E f \in RunningFrames :
        /\ f.genPc = "awaitSpeech"
        /\ \E response \in SpeechResponses :
            speechPromise' = generateSpeech(response)
        /\ genPc' = "speechSettled"
        /\ requestId' = f.requestId
        /\ decodePromise' = f.decodePromise
        /\ genCaught' = f.genCaught
        /\ genTrace' = f.genTrace
        /\ parked' = RunningFrames \ {f}
        /\ UNCHANGED <<reactVars, storyVars, platformVars, unitVars>>
        /\ UNCHANGED <<generations, audioUrlRequest, audioBufferRequest>>

\* The synchronous chain of handleGenerate from decode(base64Audio) to the
\* call of decodeAudioData (lines 153-162), for every data string the
\* service can return. A step is Null when an earlier one threw. The chain
\* is a function of the string alone, so it is tabulated once.
Pipeline ==
    [base64Audio \in {r.data : r \in SpeechResponses} |->
        LET audioBytes == decode(base64Audio)
            dataInt16  == IF audioBytes.ok THEN Int16Array(audioBytes.val) ELSE Null
            ran        == audioBytes.ok /\ dataInt16.ok
        IN [audioBytes |-> audioBytes,
            dataInt16  |-> dataInt16,
            wavBlob    |-> IF ran THEN createWavBlob(dataInt16.val, 24000) ELSE Null,
            buffer     |-> IF ran THEN decodeAudioData(audioBytes.val, 24000, 1)
                           ELSE Null]]

\* handleGenerate from `await generateSpeech` to `await decodeAudioData`, or
\* through catch and finally when a step throws. State setters of an
\* unmounted component do nothing.
GenerateResume ==
    \E f \in RunningFrames :
    /\ f.genPc = "speechSettled"
    /\ IF ~f.speechPromise.ok
       THEN /\ genCaught' = [message |-> f.speechPromise.err]
            /\ error' = IF mounted THEN CatchError(f.speechPromise.err) ELSE error
            /\ isLoading' = IF mounted THEN FALSE ELSE isLoading
            /\ genTrace' = f.genTrace
            /\ genPc' = "idle"
            /\ decodePromise' = f.decodePromise
            /\ UNCHANGED <<blobUrlStore, urlCount, audioUrl, audioUrlRequest>>
       ELSE LET run    == Pipeline[f.speechPromise.val]
                thrown == IF ~run.audioBytes.ok THEN run.audioBytes.err
                          ELSE run.dataInt16.err
            IN
            IF run.audioBytes.ok /\ run.dataInt16.ok
            THEN LET url == BlobUrl(urlCount + 1) IN
                 /\ blobUrlStore' =
                        createObjectURL(blobUrlStore, urlCount + 1, run.wavBlob)
                 /\ urlCount' = urlCount + 1
                 /\ audioUrl' = IF mounted THEN url ELSE audioUrl
                 /\ audioUrlRequest' =
                        IF mounted THEN f.requestId ELSE audioUrlRequest
                 /\ decodePromise' = run.buffer
                 /\ genTrace' = f.genTrace \o <<"decode">> \o TraceWav(TRUE)
                                  \o TraceDecodeAudioData(run.audioBytes.val)
                 /\ genPc' = "awaitDecode"
                 /\ genCaught' = f.genCaught
                 /\ UNCHANGED <<error, isLoading>>
            ELSE /\ genCaught' = [message |-> thrown]
                 /\ error' = IF mounted THEN CatchError(thrown) ELSE error
                 /\ isLoading' = IF mounted THEN FALSE ELSE isLoading
                 /\ genTrace' = f.genTrace \o <<"decode">>
                                  \o (IF run.audioBytes.ok THEN TraceWav(FALSE)
                                      ELSE <<>>)
                 /\ genPc' = "idle"
                 /\ decodePromise' = f.decodePromise
                 /\ UNCHANGED <<blobUrlStore, urlCount, audioUrl, audioUrlRequest>>
    /\ requestId' = f.requestId
    /\ speechPromise' = f.speechPromise
    /\ parked' = RunningFrames \ {f}
    /\ UNCHANGED <<text, audioBuffer, audioContextRef, mode, storyPrompt,
                   isStoryLoading, storyError, mounted>>
    /\ UNCHANGED <<generations, audioBufferRequest, storyVars, unitVars>>
    /\ UNCHANGED <<ctxCreated, ctxState, resumePending, playCalls, lastPlay, apiCalls>>

\* handleGenerate from `await decodeAudioData` to its end.
GenerateFinish ==
    \E f \in RunningFrames :
    /\ f.genPc = "awaitDecode"
    /\ IF f.decodePromise.ok
       THEN /\ audioBuffer' = IF mounted THEN f.decodePromise.val ELSE audioBuffer
            /\ audioBufferRequest' =
                   IF mounted THEN f.requestId ELSE audioBufferRequest
            /\ genCaught' = f.genCaught
            /\ UNCHANGED error
       ELSE /\ genCaught' = [message |-> f.decodePromise.err]
            /\ error' = IF mounted THEN CatchError(f.decodePromise.err) ELSE error
            /\ UNCHANGED <<audioBuffer, audioBufferRequest>>
    /\ isLoading' = IF mounted THEN FALSE ELSE isLoading
    /\ genPc' = "idle"
    /\ requestId' = f.requestId
    /\ speechPromise' = f.speechPromise
    /\ decodePromise' = f.decodePromise
    /\ genTrace' = f.genTrace
    /\ parked' = RunningFrames \ {f}
    /\ UNCHANGED <<text, audioUrl, audioContextRef, mode, storyPrompt,
                   isStoryLoading, storyError, mounted>>
    /\ UNCHANGED <<generations, audioUrlRequest>>
    /\ UNCHANGED <<storyVars, platformVars, unitVars>>

\* --------------------------------------------------------------- handlePlay

\* One AudioContext call, with what audioContext.state read when it was made.
CtxCall(name) ==
    [call |-> name, ctx |-> audioContextRef.id, state |-> ctxState]

\* handlePlay without the resume of a suspended context.
PlayCallsStartOnly == <<CtxCall("start")>>

\* The calls handlePlay makes on the context: resume() when it is suspended,
\* then source.start().
PlayCalls ==
    (IF ctxState = "suspended" THEN <<CtxCall("resume")>> ELSE <<>>)
    \o <<CtxCall("start")>>

\* handlePlay. resume() only asks for the resumption: its promise is not
\* awaited, and the state changes later (ResumeCompletes).
HandlePlay ==
    /\ playCalls' = playCalls + 1
    /\ IF audioBuffer = Null \/ audioContextRef = Null
       THEN /\ lastPlay' = <<>>
            /\ UNCHANGED resumePending
       ELSE /\ lastPlay' = PlayCalls
            /\ resumePending' =
                 (resumePending \/ \E i \in 1..Len(PlayCalls) : PlayCalls[i].call = "resume")
    /\ UNCHANGED <<reactVars, genVars, storyVars, unitVars>>
    /\ UNCHANGED <<blobUrlStore, urlCount, ctxCreated, ctxState, apiCalls>>

\* The play button: disabled={isLoading || !audioBuffer}, shown in the "tts" tab.
ClickPlay ==
    /\ mounted
    /\ mode = "tts"
    /\ ~(isLoading \/ audioBuffer = Null)
    /\ playCalls < MaxPlays
    /\ HandlePlay

\* handlePlay called with the button's guard set aside.
CallHandlePlay ==
    /\ mounted
    /\ playCalls < MaxPlays
    /\ HandlePlay

\* The platform completes a requested resume().
ResumeCompletes ==
    /\ resumePending
    /\ resumePending' = FALSE
    /\ ctxState' = "running"
    /\ UNCHANGED <<reactVars, genVars, storyVars, unitVars>>
    /\ UNCHANGED <<blobUrlStore, urlCount, ctxCreated, playCalls, lastPlay, apiCalls>>

\* The platform suspends the running context (an interruption).
ContextSuspends ==
    /\ ctxState = "running"
    /\ ctxState' = "suspended"
    /\ UNCHANGED <<reactVars, genVars, storyVars, unitVars>>
    /\ UNCHANGED <<blobUrlStore, urlCount, ctxCreated, resumePending, playCalls,
                   lastPlay, apiCalls>>

\* ------------------------------------------------------ handleGenerateStory

\* handleGenerateStory up to its await.
HandleGenerateStory ==
    IF trim(storyPrompt) = <<>>
    THEN /\ storyError' = <<"errorEnterPrompt">>
         /\ UNCHANGED <<text, isLoading, error, audioUrl, audioBuffer,
                        audioContextRef, mode, storyPrompt, isStoryLoading, mounted>>
         /\ UNCHANGED <<genVars, storyVars, platformVars>>
    ELSE /\ isStoryLoading' = TRUE
         /\ storyError' = Null
         /\ error' = Null
         /\ stories' = stories + 1
         /\ apiCalls' = apiCalls + 1
         /\ storyPc' = "awaitStory"
         /\ storyPromise' = Null
         /\ UNCHANGED <<text, isLoading, audioUrl, audioBuffer, audioContextRef,
                        mode, storyPrompt, mounted>>
         /\ UNCHANGED <<genVars, blobUrlStore, urlCount, ctxCreated, ctxState,
                        resumePending, playCalls, lastPlay>>

\* The story button: disabled={isStoryLoading || !storyPrompt.trim()}, shown
\* in the "story" tab.
ClickGenerateStory ==
    /\ mounted
    /\ mode = "story"
    /\ ~(isStoryLoading \/ trim(storyPrompt) = <<>>)
    /\ stories < MaxStories
    /\ HandleGenerateStory
    /\ UNCHANGED unitVars

\* The service answers the story request; generateStory settles.
StoryResponds ==
    /\ storyPc = "awaitStory"
    /\ \E response \in StoryResponses :
        storyPromise' = generateStory(response)
    /\ storyPc' = "storySettled"
    /\ UNCHANGED <<reactVars, genVars, platformVars, unitVars, stories>>

\* handleGenerateStory from its await to its end.
StoryResume ==
    /\ storyPc = "storySettled"
    /\ storyPc' = "idle"
    /\ IF ~mounted
       THEN UNCHANGED <<text, mode, storyError, isStoryLoading>>
       ELSE /\ isStoryLoading' = FALSE
            /\ IF storyPromise.ok
               THEN /\ text' = storyPromise.val
                    /\ mode' = "tts"
                    /\ UNCHANGED storyError
               ELSE /\ storyError' = CatchError(storyPromise.err)
                    /\ UNCHANGED <<text, mode>>
    /\ UNCHANGED <<isLoading, error, audioUrl, audioBuffer, audioContextRef,
                   storyPrompt, mounted>>
    /\ UNCHANGED <<genVars, platformVars, unitVars, storyPromise, stories>>

\* ------------------------------------------------------------ the user, React

\* The text area: disabled={isLoading}, shown in the "tts" tab.
SetText ==
    /\ mounted
    /\ mode = "tts"
    /\ ~isLoading
    /\ \E v \in Texts : text' = v
    /\ UNCHANGED <<isLoading, error, audioUrl, audioBuffer, audioContextRef, mode,
                   storyPrompt, isStoryLoading, storyError, mounted>>
    /\ UNCHANGED <<genVars, storyVars, platformVars, unitVars>>

\* The prompt area: disabled={isStoryLoading}, shown in the "story" tab.
SetStoryPrompt ==
    /\ mounted
    /\ mode = "story"
    /\ ~isStoryLoading
    /\ \E v \in StoryPrompts : storyPrompt' = v
    /\ UNCHANGED <<text, isLoading, error, audioUrl, audioBuffer, audioContextRef,
                   mode, isStoryLoading, storyError, mounted>>
    /\ UNCHANGED <<genVars, storyVars, platformVars, unitVars>>

\* The two tab buttons.
SetMode ==
    /\ mounted
    /\ \E m \in {"tts", "story"} : mode' = m
    /\ UNCHANGED <<text, isLoading, error, audioUrl, audioBuffer, audioContextRef,
                   storyPrompt, isStoryLoading, storyError, mounted>>
    /\ UNCHANGED <<genVars, storyVars, platformVars, unitVars>>

\* The component is torn down: the audioUrl effect's cleanup runs.
Unmount ==
    /\ mounted
    /\ mounted' = FALSE
    /\ blobUrlStore' = AudioUrlCleanup(blobUrlStore, audioUrl)
    /\ UNCHANGED <<text, isLoading, error, audioUrl, audioBuffer, audioContextRef,
                   mode, storyPrompt, isStoryLoading, storyError>>
    /\ UNCHANGED <<genVars, storyVars, unitVars>>
    /\ UNCHANGED <<urlCount, ctxCreated, ctxState, resumePending, playCalls,
                   lastPlay, apiCalls>>

\* ---------------------------------------------- direct calls (unit level)

RECURSIVE SeqsUpTo(_, _)
SeqsUpTo(S, n) ==
    IF n = 0 THEN {<<>>}
    ELSE LET shorter == SeqsUpTo(S, n - 1) IN
         shorter \cup {Append(s, x) : s \in {t \in shorter : Len(t) = n - 1}, x \in S}

\* The little-endian bytes of the int16 samples S.
RECURSIVE BytesOf(_)
BytesOf(S) ==
    IF S = <<>> THEN <<>>
    ELSE LET u == Head(S) % 65536 IN <<u % 256, u \div 256>> \o BytesOf(Tail(S))

\* The byte sequences handed directly to the pipeline functions.
PcmInputs ==
    {BytesOf(S) \o t : S \in SeqsUpTo(SampleVals, MaxSamples), t \in TrailingBytes}

UnitIdle ==
    /\ pcmBytes = <<>>
    /\ numChannelsIn = 1
    /\ sampleRateIn = 24000
    /\ fnCalled = "none"
    /\ fnResult = Ok(<<>>)

InitUnit ==
    /\ AppInit
    /\ pcmBytes \in PcmInputs
    /\ numChannelsIn \in 1..MaxChannels
    /\ sampleRateIn \in Rates
    /\ fnCalled = "none"
    /\ fnResult = Ok(<<>>)

\* createWavBlob(new Int16Array(bytes.buffer), sampleRate), as handleGenerate
\* builds its argument.
CallCreateWavBlob ==
    /\ fnCalled = "none"
    /\ LET dataInt16 == Int16Array(pcmBytes) IN
       fnResult' = IF dataInt16.ok
                   THEN Ok(createWavBlob(dataInt16.val, sampleRateIn))
                   ELSE dataInt16
    /\ fnCalled' = "createWavBlob"
    /\ UNCHANGED <<pcmBytes, numChannelsIn, sampleRateIn, appVars>>

CallDecodeAudioData ==
    /\ fnCalled = "none"
    /\ fnResult' = decodeAudioData(pcmBytes, sampleRateIn, numChannelsIn)
    /\ fnCalled' = "decodeAudioData"
    /\ UNCHANGED <<pcmBytes, numChannelsIn, sampleRateIn, appVars>>

NextUnit == CallCreateWavBlob \/ CallDecodeAudioData

SpecUnit == InitUnit /\ [][NextUnit]_vars

\* ------------------------------------------------------------ the program

Init == AppInit /\ UnitIdle

Next ==
    \/ ClickGenerate
    \/ SpeechResponds
    \/ GenerateResume
    \/ GenerateFinish
    \/ ClickPlay
    \/ ResumeCompletes
    \/ ContextSuspends
    \/ ClickGenerateStory
    \/ StoryResponds
    \/ StoryResume
    \/ SetText
    \/ SetStoryPrompt
    \/ SetMode
    \/ Unmount

Spec == Init /\ [][Next]_vars

\* The service answers every speech request and the microtasks of a settled
\* promise run.
FairSpec ==
    /\ Spec
    /\ WF_vars(SpeechResponds)
    /\ WF_vars(GenerateResume)
    /\ WF_vars(GenerateFinish)

\* The program, with handlePlay also callable whatever the play button's state.
NextHandlers == Next \/ CallHandlePlay

SpecHandlers == Init /\ [][NextHandlers]_vars

\* ======================================================================
\* Claims about the pipeline functions, checked under SpecUnit
\* ======================================================================

ReadU16(buf, off) == buf[off + 1] + 256 * buf[off + 2]
ReadU32(buf, off) == ReadU16(buf, off) + 65536 * ReadU16(buf, off + 2)
ReadI16(buf, off) ==
    LET u == ReadU16(buf, off) IN IF u >= 32768 THEN u - 65536 ELSE u

\* C4: for every numChannels >= 1, a byte sequence whose length is not an
\* exact multiple of 2 x numChannels makes decodeAudioData fail instead of
\* dropping the remainder; an exact multiple gives
\* frameCount = length / (2 x numChannels).
C4_MalformedPcmRejected ==
    fnCalled = "decodeAudioData" =>
        IF Len(pcmBytes) % (2 * numChannelsIn) # 0
        THEN ~fnResult.ok
        ELSE fnResult.ok =>
                fnResult.val.length = Len(pcmBytes) \div (2 * numChannelsIn)

\* C5: createWavBlob(S, R) is 44 + 2n bytes; its header holds, little-endian,
\* 36 + 2n at 4, numChannels (1) at 22, R at 24, R * numChannels * 2 at 28,
\* numChannels * 2 at 32, 16 at 34 and 2n at 40; the samples of S follow from
\* offset 44 in order, so reading the data section back gives S.
C5_WavLayoutAndRoundTrip ==
    (fnCalled = "createWavBlob" /\ fnResult.ok) =>
        LET S   == Int16Array(pcmBytes).val
            n   == Len(S)
            wav == fnResult.val
        IN /\ Len(wav) = 44 + 2 * n
           /\ ReadU32(wav, 4) = 36 + 2 * n
           /\ ReadU16(wav, 22) = 1
           /\ ReadU32(wav, 24) = sampleRateIn
           /\ ReadU32(wav, 28) = sampleRateIn * 1 * 2
           /\ ReadU16(wav, 32) = 1 * 2
           /\ ReadU16(wav, 34) = 16
           /\ ReadU32(wav, 40) = 2 * n
           /\ [i \in 1..n |-> ReadI16(wav, 44 + 2 * (i - 1))] = S
           /\ (n = 0 => Len(wav) = 44 /\ ReadU32(wav, 4) = 36 /\ ReadU32(wav, 40) = 0)

\* Two samples, 0 and 32767, encoded at 24000 Hz: 48 bytes.
C5_Witness ==
    /\ fnCalled = "createWavBlob"
    /\ fnResult.ok
    /\ pcmBytes = <<0, 0, 255, 127>>
    /\ sampleRateIn = 24000
    /\ Len(fnResult.val) = 48

\* What C6 says of one AudioBuffer: one array per channel, each frameCount
\* long, channelData[c][i] = sample[i * numChannels + c] / 32768, in [-1, 1).
C6_BufferMatches(buffer, S, numChannels) ==
    /\ buffer.numberOfChannels = numChannels
    /\ Len(buffer.channelData) = numChannels
    /\ \A c \in 1..numChannels :
        /\ Len(buffer.channelData[c]) = Len(S) \div numChannels
        /\ \A i \in 1..(Len(S) \div numChannels) :
            LET x == buffer.channelData[c][i]
                v == S[(i - 1) * numChannels + (c - 1) + 1]
            IN /\ x.num * 32768 = v * x.den
               /\ x.den > 0
               /\ -x.den <= x.num
               /\ x.num < x.den

\* C6 as stated: for EVERY valid interleaved sample sequence (the empty one
\* included) decodeAudioData produces the per-channel arrays.
C6_EveryValidSequenceDecodes ==
    (fnCalled = "decodeAudioData" /\ Len(pcmBytes) % (2 * numChannelsIn) = 0) =>
        /\ fnResult.ok
        /\ C6_BufferMatches(fnResult.val, Int16Array(pcmBytes).val, numChannelsIn)

\* C6 as amended: for every valid interleaved sample sequence of at least
\* one frame, decodeAudioData produces one array per channel, each of length
\* frameCount, with channelData[c][i] = sample[i * numChannels + c] / 32768
\* and -1 <= value < 1; for the empty sequence it fails (createBuffer
\* refuses a buffer of zero frames).
C6_NonEmptyValidSequenceDecodes ==
    (fnCalled = "decodeAudioData" /\ Len(pcmBytes) % (2 * numChannelsIn) = 0) =>
        IF Len(pcmBytes) = 0
        THEN ~fnResult.ok /\ fnResult.err = "NotSupportedError"
        ELSE /\ fnResult.ok
             /\ C6_BufferMatches(fnResult.val, Int16Array(pcmBytes).val,
                                 numChannelsIn)

\* Two stereo frames holding both extremes of the int16 range.
C6_Witness ==
    /\ fnCalled = "decodeAudioData"
    /\ numChannelsIn = 2
    /\ pcmBytes = BytesOf(<<-32768, 32767, 1, -1>>)
    /\ fnResult.ok
    /\ fnResult.val.channelData[1] = <<ToFloat(-32768), ToFloat(1)>>
    /\ fnResult.val.channelData[2] = <<ToFloat(32767), ToFloat(-1)>>

\* ======================================================================
\* Claims about the App component, checked under Spec, FairSpec and
\* SpecHandlers
\* ======================================================================

\* C1: at most one created blob URL is un-released at a time: the handle of
\* a prior generation is released before or upon the new one being
\* established (while the component is mounted the only live handle is the
\* one audioUrl holds), and the held handle is released on teardown.
C1_AtMostOneLiveHandle ==
    /\ Cardinality(LiveUrls) <= 1
    /\ mounted => LiveUrls \subseteq {audioUrl}
    /\ ~mounted => audioUrl \notin LiveUrls

\* Torn down while holding the handle of the second generation: none is live.
C1_Witness ==
    /\ ~mounted
    /\ genPc = "idle"
    /\ urlCount = 2
    /\ audioUrl = BlobUrl(2)
    /\ LiveUrls = {}

\* C2: whenever a generation cycle has ended in failure (error set), neither
\* audioUrl nor audioBuffer is exposed, and the two are only ever exposed
\* together.
C2_NoPartialOutput ==
    (mounted /\ genPc = "idle") =>
        /\ error # Null => (audioUrl = Null /\ audioBuffer = Null)
        /\ (audioUrl = Null) <=> (audioBuffer = Null)

\* C3: at most one AudioContext is ever constructed; it is constructed on the
\* first generation, at 24000 Hz; every later generation and every playback
\* uses that instance; the ref, once set, never changes.
C3_SingleAudioContext ==
    /\ [](/\ ctxCreated <= 1
          /\ generations = 0 => audioContextRef = Null
          /\ ctxCreated = 1 => audioContextRef # Null
          /\ audioContextRef # Null =>
                audioContextRef = [id |-> 1, sampleRate |-> 24000]
          /\ \A i \in 1..Len(lastPlay) : lastPlay[i].ctx = 1)
    /\ [][audioContextRef # Null => audioContextRef' = audioContextRef]_vars

\* Two generations and two playbacks, one context.
C3_Witness ==
    /\ generations = 2
    /\ genPc = "idle"
    /\ audioBuffer # Null
    /\ playCalls = 2
    /\ lastPlay # <<>>
    /\ ctxCreated = 1

\* How many generation cycles have ended.
CyclesEnded == generations - (IF genPc = "idle" THEN 0 ELSE 1)

\* C7: a started cycle is in the loading state until it ends; the step that
\* ends a cycle clears the loading flag and leaves either a non-null error
\* (when any step threw) or both outputs and no error; and, the service
\* answering, every started cycle ends and leaves the loading state.
C7_CycleEndsSurfaced ==
    /\ []((mounted /\ genPc # "idle") => isLoading)
    /\ [][(CyclesEnded' = CyclesEnded + 1 /\ mounted') =>
            /\ ~isLoading'
            /\ IF genCaught' # Null
               THEN error' # Null
               ELSE error' = Null /\ audioUrl' # Null /\ audioBuffer' # Null]_vars
    /\ (genPc # "idle") ~> (genPc = "idle")
    /\ isLoading ~> (~isLoading \/ ~mounted)

\* A cycle that failed in the playback-buffer construction, surfaced.
C7_Witness ==
    /\ mounted
    /\ genPc = "idle"
    /\ generations > 0
    /\ genCaught = [message |-> "NotSupportedError"]
    /\ error = CatchError("NotSupportedError")
    /\ ~isLoading

\* C8 as stated: source.start() is never called on a context that still
\* reads suspended; without a buffer or a context handlePlay does nothing.
C8_NeverStartedWhileSuspended ==
    \A i \in 1..Len(lastPlay) :
        lastPlay[i].call = "start" => lastPlay[i].state # "suspended"

\* C8 as amended: whenever handlePlay runs with the context suspended it
\* calls resume() before source.start(); the resume is not awaited, so
\* start() may be called while the context still reads suspended, but never
\* without the resume requested first; without a buffer or a context
\* handlePlay makes no call and changes nothing.
C8_ResumeRequestedBeforeStart ==
    /\ [](\A i \in 1..Len(lastPlay) :
            (lastPlay[i].call = "start" /\ lastPlay[i].state = "suspended") =>
                \E j \in 1..(i - 1) : lastPlay[j].call = "resume")
    /\ [][(playCalls' = playCalls + 1
            /\ (audioBuffer = Null \/ audioContextRef = Null)) =>
            /\ lastPlay' = <<>>
            /\ UNCHANGED <<reactVars, genVars, storyVars, unitVars>>
            /\ UNCHANGED <<blobUrlStore, urlCount, ctxCreated, ctxState,
                           resumePending, apiCalls>>]_vars

\* handlePlay ran on a suspended context: resume(), then start().
C8_Witness ==
    /\ Len(lastPlay) = 2
    /\ lastPlay[1].call = "resume"
    /\ lastPlay[2].call = "start"
    /\ lastPlay[2].state = "suspended"
    /\ resumePending

\* C9: neither remote request returns an empty result: a fulfilled
\* generateSpeech holds a non-empty base64 string, a fulfilled generateStory
\* holds story text, and no request is issued twice.
C9_NeverEmptyResult ==
    /\ (speechPromise # Null /\ speechPromise.ok) => speechPromise.val # <<>>
    /\ (storyPromise # Null /\ storyPromise.ok) => storyPromise.val # <<>>
    /\ apiCalls <= generations + stories

CountOf(trace, name) == Cardinality({i \in 1..Len(trace) : trace[i] = name})

\* C10 as stated: within a cycle the base64 decode and the PCM interpretation
\* each happen once, and both are over before the WAV encoding or the
\* playback-buffer construction begins.
C10_SingleDecodeAndInterpretPass ==
    /\ CountOf(genTrace, "decode") <= 1
    /\ CountOf(genTrace, "Int16Array") <= 1
    /\ \A i, j \in 1..Len(genTrace) :
        (genTrace[i] \in {"decode", "Int16Array"}
            /\ genTrace[j] \in {"createWavBlob", "createBuffer"}) => i < j

\* C10 as amended: within a cycle the base64 decode happens once, before
\* anything else of the pipeline, and its bytes feed both consumers; the PCM
\* interpretation (an Int16Array view of those bytes) is made once for the
\* WAV encoder and once more inside decodeAudioData, after the WAV encoding,
\* each right before its consumer.
C10_SingleDecodeTwoViews ==
    /\ CountOf(genTrace, "decode") <= 1
    /\ genTrace # <<>> => genTrace[1] = "decode"
    /\ CountOf(genTrace, "Int16Array") <= 2
    /\ \A j \in 1..Len(genTrace) :
        genTrace[j] \in {"createWavBlob", "createBuffer"} =>
            (j > 1 /\ genTrace[j - 1] = "Int16Array")
    /\ \A i, j \in 1..Len(genTrace) :
        (genTrace[i] = "createWavBlob" /\ genTrace[j] = "createBuffer") => i < j
    /\ (genPc = "awaitDecode" /\ BlobUrl(urlCount) \in LiveUrls) =>
        LET bytes == decode(speechPromise.val).val
            wav   == blobUrlStore[BlobUrl(urlCount)]
        IN /\ SubSeq(wav, 45, Len(wav)) = bytes
           /\ decodePromise.ok =>
                decodePromise.val.channelData[1] =
                    [i \in 1..(Len(bytes) \div 2) |->
                        ToFloat(Int16Array(bytes).val[i])]

\* Both consumers ran in one cycle, each behind its own view.
C10_Witness ==
    /\ genPc = "awaitDecode"
    /\ BlobUrl(urlCount) \in LiveUrls
    /\ decodePromise.ok
    /\ genTrace = <<"decode", "Int16Array", "createWavBlob", "createObjectURL",
                    "Int16Array", "createBuffer">>

\* C11: stale results never overwrite newer ones. Under any interleaving of
\* generation requests and their responses, once every request has completed
\* the audioUrl and the audioBuffer held were set by the invocation serving
\* the most recently issued request, never by that of an earlier request
\* whose response arrived later.
C11_LatestRequestWins ==
    RunningFrames = {} =>
        /\ audioUrl # Null => audioUrlRequest = generations
        /\ audioBuffer # Null => audioBufferRequest = generations

\* Two requests were issued and both produced a file and a buffer; what is
\* held is the second request's.
C11_Witness ==
    /\ mounted
    /\ generations = 2
    /\ RunningFrames = {}
    /\ urlCount = 2
    /\ audioUrl = BlobUrl(2)
    /\ audioUrlRequest = 2
    /\ audioBuffer # Null
    /\ audioBufferRequest = 2

\* While the component is mounted the loading flag says exactly whether an
\* invocation of handleGenerate is running, so invocations never overlap.
LoadingIffRunning ==
    mounted => (isLoading <=> genPc # "idle")

====
